---- MODULE Spec2Model ----
(***************************************************************************)
(* A model of opendg: the dictionary storage backend                       *)
(* (DGStorageDictBackend), the DGraph view with its lazily filled _cache,  *)
(* and the operations that slice and read a view.                          *)
(*                                                                         *)
(* Python's None is the empty sequence and a present value x is <<x>>, so  *)
(* Optional[int] and Optional[Set[int]] are sequences of length <= 1.      *)
(***************************************************************************)
EXTENDS Integers, Sequences, FiniteSets, TLC

VARIABLES
    input,          \* the event list handed to the constructor
    events_dict,    \* DGStorageDictBackend._events_dict, in insertion order
    node_feats_shape,   \* DGStorageDictBackend._node_feats_shape
    edge_feats_shape,   \* DGStorageDictBackend._edge_feats_shape
    n_appends,      \* the number of append calls made on the storage
    time_delta,     \* DGraph._time_delta, which every view of the graph carries
    loader,         \* the batch loader made over the DGraph, if any
    views,          \* the DGraph objects: views[v] is the reference held in v._cache
    caches,         \* the heap of _cache dictionaries, indexed by reference
    last            \* the last call made: its name and arguments, the receiver's
                    \* _cache as the call found it, what it raised, what it returned

\* the storage backend's attributes
backend == <<events_dict, node_feats_shape, edge_feats_shape>>

vars == <<input, backend, n_appends, time_delta, loader, views, caches, last>>

(***************************************************************************)
(* Bounds of the model.                                                    *)
(***************************************************************************)
MaxTime == 2
MaxNode == 1
MaxLen == 2
MaxViews == 2
MaxShape == 2
MaxAppends == 2
MaxBatch == 2
MaxNext == 3

Times == 1..MaxTime
NodeIds == 0..MaxNode
\* a feature tensor is told by its shape, torch.Size([k])
Shapes == 1..MaxShape

None == <<>>
Some(x) == <<x>>
IsNone(o) == o = None
Val(o) == o[1]

(***************************************************************************)
(* events.py                                                               *)
(***************************************************************************)
NodeEvent(t, n, f) ==
    [kind |-> "node", time |-> t, node_id |-> n, features |-> f]

EdgeEvent(t, s, d, f) ==
    [kind |-> "edge", time |-> t, edge |-> <<s, d>>, features |-> f]

IsNodeEvent(ev) == ev.kind = "node"
IsEdgeEvent(ev) == ev.kind = "edge"

\* set(event.edge)
EdgeSet(ev) == {ev.edge[1], ev.edge[2]}

\* Event.__lt__ with another Event: by time
lt(self, other) == self.time < other.time

\* Event defines no __eq__: == and != are those of object, by identity. An event
\* object is told by its place in the list that holds it.
eq(i, j) == i = j
ne(i, j) == ~eq(i, j)

\* functools.total_ordering fills in __gt__, __le__ and __ge__ from __lt__:
\*   __gt__: not (self < other) and self != other
\*   __le__: self < other or self == other
\*   __ge__: not (self < other)
gt(objs, i, j) == ~lt(objs[i], objs[j]) /\ ne(i, j)
le(objs, i, j) == lt(objs[i], objs[j]) \/ eq(i, j)
ge(objs, i, j) == ~lt(objs[i], objs[j])

(***************************************************************************)
(* dict_backend.py: DGStorageDictBackend                                   *)
(***************************************************************************)
\* position of key t in the insertion-ordered dict d, 0 when absent
RECURSIVE KeyIndex(_, _, _)
KeyIndex(d, t, i) ==
    IF i > Len(d) THEN 0
    ELSE IF d[i].t = t THEN i
    ELSE KeyIndex(d, t, i + 1)

\* self._events_dict[event.time].append(event) on a defaultdict(list)
DictAppend(d, ev) ==
    LET i == KeyIndex(d, ev.time, 1) IN
    IF i = 0 THEN Append(d, [t |-> ev.time, evs |-> <<ev>>])
    ELSE [d EXCEPT ![i].evs = Append(@, ev)]

\* for event in events: self._events_dict[event.time].append(event)
RECURSIVE StorageInit(_, _, _)
StorageInit(d, events, i) ==
    IF i > Len(events) THEN d
    ELSE StorageInit(DictAppend(d, events[i]), events, i + 1)

\* _check_node_feature_shapes / _check_edge_feature_shapes of DGStorageBase: the
\* shape of the first feature tensor of the kind becomes the shape, unless one is
\* expected already, and a later tensor of the kind with another shape is refused
RECURSIVE CheckFeatureShapes(_, _, _, _)
CheckFeatureShapes(events, kind, shape, i) ==
    IF i > Len(events) THEN [raised |-> "", shape |-> shape]
    ELSE IF events[i].kind # kind \/ IsNone(events[i].features)
         THEN CheckFeatureShapes(events, kind, shape, i + 1)
    ELSE IF IsNone(shape)
         THEN CheckFeatureShapes(events, kind, events[i].features, i + 1)
    ELSE IF events[i].features # shape
         THEN [raised |-> "ValueError", shape |-> shape]
    ELSE CheckFeatureShapes(events, kind, shape, i + 1)

check_node_feature_shapes(events, expected_shape) ==
    CheckFeatureShapes(events, "node", expected_shape, 1)

check_edge_feature_shapes(events, expected_shape) ==
    CheckFeatureShapes(events, "edge", expected_shape, 1)

\* the expected shape taken to be None whatever the storage holds
ExpFeatsShapeNone(d, shape) == None

\* exp_node_feats_shape / exp_edge_feats_shape: the current shape when the
\* storage holds events, None when it is empty
exp_feats_shape(d, shape) == IF Len(d) # 0 THEN shape ELSE None

\* append: both shape checks, each assigning its attribute, then the events are
\* stored; a check that raises leaves what was assigned before it
append(d, node_shape, edge_shape, events) ==
    LET n == check_node_feature_shapes(events, exp_feats_shape(d, node_shape)) IN
    IF n.raised # ""
    THEN [raised |-> n.raised, d |-> d, node |-> node_shape, edge |-> edge_shape]
    ELSE LET e == check_edge_feature_shapes(events, exp_feats_shape(d, edge_shape)) IN
         IF e.raised # ""
         THEN [raised |-> e.raised, d |-> d, node |-> n.shape, edge |-> edge_shape]
         ELSE [raised |-> "", d |-> StorageInit(d, events, 1),
               node |-> n.shape, edge |-> e.shape]

\* the range test with the end bound taken inclusively
InTimeRangeInclusive(t, start_time, end_time) ==
    /\ (IsNone(start_time) \/ Val(start_time) <= t)
    /\ (IsNone(end_time) \/ t <= Val(end_time))

\* lb_time <= t < ub_time, with -inf and +inf standing for None
InTimeRange(t, start_time, end_time) ==
    /\ (IsNone(start_time) \/ Val(start_time) <= t)
    /\ (IsNone(end_time) \/ t < Val(end_time))

\* the isinstance / membership test every node_slice filter repeats
TouchesSlice(ev, nodes) ==
    \/ IsNodeEvent(ev) /\ ev.node_id \in nodes
    \/ IsEdgeEvent(ev) /\ Cardinality(EdgeSet(ev) \cap nodes) # 0

\* the inner loop of to_events over one bucket, with a node_slice
RECURSIVE FilterBucket(_, _, _, _)
FilterBucket(acc, evs, nodes, i) ==
    IF i > Len(evs) THEN acc
    ELSE FilterBucket(IF TouchesSlice(evs[i], nodes) THEN Append(acc, evs[i]) ELSE acc,
                      evs, nodes, i + 1)

RECURSIVE ToEventsLoop(_, _, _, _, _, _)
ToEventsLoop(acc, d, start_time, end_time, node_slice, i) ==
    IF i > Len(d) THEN acc
    ELSE LET acc2 ==
                 IF InTimeRange(d[i].t, start_time, end_time)
                 THEN IF IsNone(node_slice) THEN acc \o d[i].evs
                      ELSE FilterBucket(acc, d[i].evs, Val(node_slice), 1)
                 ELSE acc
         IN ToEventsLoop(acc2, d, start_time, end_time, node_slice, i + 1)

to_events(d, start_time, end_time, node_slice) ==
    ToEventsLoop(<<>>, d, start_time, end_time, node_slice, 1)

\* the scan of one bucket with the break taken after the first event unconditionally
ValidSliceFirstOnly(evs, node_slice, i) ==
    IF IsNone(node_slice) THEN TRUE
    ELSE i <= Len(evs) /\ TouchesSlice(evs[i], Val(node_slice))

\* the scan of one bucket that sets valid_slice
RECURSIVE ValidSlice(_, _, _)
ValidSlice(evs, node_slice, i) ==
    IF IsNone(node_slice) THEN TRUE
    ELSE IF i > Len(evs) THEN FALSE
    ELSE IF TouchesSlice(evs[i], Val(node_slice)) THEN TRUE
    ELSE ValidSlice(evs, node_slice, i + 1)

RECURSIVE StartTimeLoop(_, _, _, _)
StartTimeLoop(start_time, d, node_slice, i) ==
    IF i > Len(d) THEN start_time
    ELSE LET t == d[i].t
             next == IF ValidSlice(d[i].evs, node_slice, 1)
                        /\ (IsNone(start_time) \/ t < Val(start_time))
                     THEN Some(t) ELSE start_time
         IN StartTimeLoop(next, d, node_slice, i + 1)

get_start_time(d, node_slice) == StartTimeLoop(None, d, node_slice, 1)

RECURSIVE EndTimeLoop(_, _, _, _)
EndTimeLoop(end_time, d, node_slice, i) ==
    IF i > Len(d) THEN end_time
    ELSE LET t == d[i].t
             next == IF ValidSlice(d[i].evs, node_slice, 1)
                        /\ (IsNone(end_time) \/ t > Val(end_time))
                     THEN Some(t) ELSE end_time
         IN EndTimeLoop(next, d, node_slice, i + 1)

get_end_time(d, node_slice) == EndTimeLoop(None, d, node_slice, 1)

\* nodes.union(event.edge): set.union returns a new set and leaves nodes as it was
UnionDiscarded(nodes, edge) == nodes

RECURSIVE NodesBucket(_, _, _)
NodesBucket(nodes, evs, i) ==
    IF i > Len(evs) THEN nodes
    ELSE LET next == IF IsNodeEvent(evs[i]) THEN nodes \cup {evs[i].node_id}
                     ELSE UnionDiscarded(nodes, EdgeSet(evs[i]))
         IN NodesBucket(next, evs, i + 1)

RECURSIVE NodesLoop(_, _, _, _, _)
NodesLoop(nodes, d, start_time, end_time, i) ==
    IF i > Len(d) THEN nodes
    ELSE NodesLoop(IF InTimeRange(d[i].t, start_time, end_time)
                   THEN NodesBucket(nodes, d[i].evs, 1) ELSE nodes,
                   d, start_time, end_time, i + 1)

get_nodes(d, start_time, end_time) == NodesLoop({}, d, start_time, end_time, 1)

\* edges kept as a list: every append is a new element
EdgesAppend(edges, ev) == edges \cup {<<ev.time, ev.edge, Cardinality(edges)>>}

\* edges.add((event.time, event.edge)) on a set
EdgesAdd(edges, ev) == edges \cup {<<ev.time, ev.edge>>}

RECURSIVE EdgesBucket(_, _, _, _)
EdgesBucket(edges, evs, node_slice, i) ==
    IF i > Len(evs) THEN edges
    ELSE LET ev == evs[i]
             next == IF IsEdgeEvent(ev)
                     THEN IF IsNone(node_slice) THEN EdgesAdd(edges, ev)
                          ELSE IF Cardinality(EdgeSet(ev) \cap Val(node_slice)) # 0
                               THEN EdgesAdd(edges, ev)
                               ELSE edges
                     ELSE edges
         IN EdgesBucket(next, evs, node_slice, i + 1)

RECURSIVE EdgesLoop(_, _, _, _, _, _)
EdgesLoop(edges, d, start_time, end_time, node_slice, i) ==
    IF i > Len(d) THEN edges
    ELSE EdgesLoop(IF InTimeRange(d[i].t, start_time, end_time)
                   THEN EdgesBucket(edges, d[i].evs, node_slice, 1) ELSE edges,
                   d, start_time, end_time, node_slice, i + 1)

get_num_edges(d, start_time, end_time, node_slice) ==
    Cardinality(EdgesLoop({}, d, start_time, end_time, node_slice, 1))

\* the bucket scan of get_num_timestamps: does it reach a timestamps.add(t)?
RECURSIVE TimestampHit(_, _, _)
TimestampHit(evs, node_slice, i) ==
    IF i > Len(evs) THEN FALSE
    ELSE IF IsNone(node_slice) THEN TRUE
    ELSE IF TouchesSlice(evs[i], Val(node_slice)) THEN TRUE
    ELSE TimestampHit(evs, node_slice, i + 1)

RECURSIVE TimestampsLoop(_, _, _, _, _, _)
TimestampsLoop(timestamps, d, start_time, end_time, node_slice, i) ==
    IF i > Len(d) THEN timestamps
    ELSE TimestampsLoop(IF InTimeRange(d[i].t, start_time, end_time)
                           /\ TimestampHit(d[i].evs, node_slice, 1)
                        THEN timestamps \cup {d[i].t} ELSE timestamps,
                        d, start_time, end_time, node_slice, i + 1)

get_num_timestamps(d, start_time, end_time, node_slice) ==
    Cardinality(TimestampsLoop({}, d, start_time, end_time, node_slice, 1))

\* torch.sparse_coo_tensor(indices, values, shape), kept as its indices and the
\* shapes of its values
Tensor(indices, values) == [indices |-> indices, values |-> values]

\* the inner loop of get_node_feats over one bucket
RECURSIVE NodeFeatsBucket(_, _, _, _)
NodeFeatsBucket(acc, evs, node_slice, i) ==
    IF i > Len(evs) THEN acc
    ELSE LET ev == evs[i]
             hit == /\ IsNodeEvent(ev) /\ ~IsNone(ev.features)
                    /\ (IsNone(node_slice) \/ ev.node_id \in Val(node_slice))
             acc2 == IF hit
                     THEN Tensor(Append(acc.indices, <<ev.time, ev.node_id>>),
                                 Append(acc.values, Val(ev.features)))
                     ELSE acc
         IN NodeFeatsBucket(acc2, evs, node_slice, i + 1)

\* the inner loop of get_edge_feats over one bucket
RECURSIVE EdgeFeatsBucket(_, _, _, _)
EdgeFeatsBucket(acc, evs, node_slice, i) ==
    IF i > Len(evs) THEN acc
    ELSE LET ev == evs[i]
             hit == /\ IsEdgeEvent(ev) /\ ~IsNone(ev.features)
                    /\ (IsNone(node_slice)
                           \/ Cardinality(EdgeSet(ev) \cap Val(node_slice)) # 0)
             acc2 == IF hit
                     THEN Tensor(Append(acc.indices, <<ev.time, ev.edge[1], ev.edge[2]>>),
                                 Append(acc.values, Val(ev.features)))
                     ELSE acc
         IN EdgeFeatsBucket(acc2, evs, node_slice, i + 1)

RECURSIVE FeatsLoop(_, _, _, _, _, _, _)
FeatsLoop(acc, d, kind, start_time, end_time, node_slice, i) ==
    IF i > Len(d) THEN acc
    ELSE LET acc2 ==
                 IF ~InTimeRange(d[i].t, start_time, end_time) THEN acc
                 ELSE IF kind = "node" THEN NodeFeatsBucket(acc, d[i].evs, node_slice, 1)
                 ELSE EdgeFeatsBucket(acc, d[i].evs, node_slice, 1)
         IN FeatsLoop(acc2, d, kind, start_time, end_time, node_slice, i + 1)

\* None without values, the tensor otherwise
get_node_feats(d, start_time, end_time, node_slice) ==
    LET t == FeatsLoop(Tensor(<<>>, <<>>), d, "node", start_time, end_time, node_slice, 1)
    IN IF Len(t.values) = 0 THEN None ELSE Some(t)

get_edge_feats(d, start_time, end_time, node_slice) ==
    LET t == FeatsLoop(Tensor(<<>>, <<>>), d, "edge", start_time, end_time, node_slice, 1)
    IN IF Len(t.values) = 0 THEN None ELSE Some(t)

(***************************************************************************)
(* graph.py: DGraph                                                        *)
(***************************************************************************)
\* self._cache = {} : every key absent, which .get() reads as None
EmptyCache ==
    [start_time |-> None, end_time |-> None, node_slice |-> None,
     num_nodes |-> None, num_edges |-> None, num_timestamps |-> None,
     node_feats |-> None, edge_feats |-> None, edge_feats_feats |-> None]

\* the result of a call: the heap of caches after it, what it raised, what it returned
Result(cs, raised, value) == [caches |-> cs, raised |-> raised, value |-> value]

\* max() of a non-empty set of ints
Max(S) == CHOOSE x \in S : \A y \in S : y <= x

\* set(range(n))
Range(n) == 0..(n - 1)

\* the start_time property
start_time(d, cs, ref) ==
    LET c == cs[ref]
        c2 == IF IsNone(c.start_time)
              THEN [c EXCEPT !.start_time = get_start_time(d, c.node_slice)]
              ELSE c
    IN Result([cs EXCEPT ![ref] = c2], "", c2.start_time)

\* the end_time property
end_time(d, cs, ref) ==
    LET c == cs[ref]
        c2 == IF IsNone(c.end_time)
              THEN [c EXCEPT !.end_time = get_end_time(d, c.node_slice)]
              ELSE c
    IN Result([cs EXCEPT ![ref] = c2], "", c2.end_time)

\* the num_nodes property; max() of an empty set raises ValueError after
\* node_slice has been stored
num_nodes(d, cs, ref) ==
    LET c == cs[ref] IN
    IF ~IsNone(c.num_nodes) THEN Result(cs, "", c.num_nodes)
    ELSE LET c1 == IF IsNone(c.node_slice)
                   THEN [c EXCEPT !.node_slice =
                                Some(get_nodes(d, c.start_time, c.end_time))]
                   ELSE c
         IN IF Val(c1.node_slice) = {}
            THEN Result([cs EXCEPT ![ref] = c1], "ValueError", None)
            ELSE LET c2 == [c1 EXCEPT !.num_nodes = Some(Max(Val(c1.node_slice)) + 1)]
                 IN Result([cs EXCEPT ![ref] = c2], "", c2.num_nodes)

\* the num_edges property
num_edges(d, cs, ref) ==
    LET c == cs[ref]
        c2 == IF IsNone(c.num_edges)
              THEN [c EXCEPT !.num_edges =
                       Some(get_num_edges(d, c.start_time, c.end_time, c.node_slice))]
              ELSE c
    IN Result([cs EXCEPT ![ref] = c2], "", c2.num_edges)

\* the num_timestamps property
num_timestamps(d, cs, ref) ==
    LET c == cs[ref]
        c2 == IF IsNone(c.num_timestamps)
              THEN [c EXCEPT !.num_timestamps =
                       Some(get_num_timestamps(d, c.start_time, c.end_time, c.node_slice))]
              ELSE c
    IN Result([cs EXCEPT ![ref] = c2], "", c2.num_timestamps)

\* the node_feats property
node_feats(d, cs, ref) ==
    LET c == cs[ref]
        c2 == IF IsNone(c.node_feats)
              THEN [c EXCEPT !.node_feats =
                       get_node_feats(d, c.start_time, c.end_time, c.node_slice)]
              ELSE c
    IN Result([cs EXCEPT ![ref] = c2], "", c2.node_feats)

\* the edge_feats property: the tensor is stored under 'edge_feats_feats' and
\* self._cache['edge_feats'] is returned, a key nothing ever stores
edge_feats(d, cs, ref) ==
    LET c == cs[ref]
        c2 == IF IsNone(c.edge_feats)
              THEN [c EXCEPT !.edge_feats_feats =
                       get_edge_feats(d, c.start_time, c.end_time, c.node_slice)]
              ELSE c
    IN IF IsNone(c2.edge_feats)
       THEN Result([cs EXCEPT ![ref] = c2], "KeyError", None)
       ELSE Result([cs EXCEPT ![ref] = c2], "", c2.edge_feats)

\* the events to_csv hands to write_csv: what the view exposes
to_csv(d, cs, ref) ==
    Result(cs, "", to_events(d, cs[ref].start_time, cs[ref].end_time, cs[ref].node_slice))

\* copy.copy(self): a shallow copy, whose _cache attribute is the same dict object
CopyCache(cs, ref) == [caches |-> cs, ref |-> ref]

\* the test with equal bounds refused as well
CheckSliceTimeArgsStrict(start, end) == start >= end

\* _check_slice_time_args: TRUE when it raises ValueError
check_slice_time_args(start, end) == start > end

\* slice_time; value is the reference held by the returned view's _cache
slice_time(d, cs, ref, start, end) ==
    IF check_slice_time_args(start, end) THEN Result(cs, "ValueError", None)
    ELSE
    LET cp == CopyCache(cs, ref)
        dg == cp.ref
        r1 == start_time(d, cp.caches, ref)
        new_start_time == IF ~IsNone(r1.value) /\ start > Val(r1.value)
                          THEN Some(start) ELSE None
        r2 == end_time(d, r1.caches, ref)
        new_end_time == IF ~IsNone(r2.value) /\ end < Val(r2.value)
                        THEN Some(end) ELSE None
        cs3 == IF ~IsNone(new_start_time) \/ ~IsNone(new_end_time)
               THEN [r2.caches EXCEPT ![dg] =
                        [EmptyCache EXCEPT !.start_time = new_start_time,
                                           !.end_time = new_end_time]]
               ELSE r2.caches
    IN Result(cs3, "", Some(dg))

\* slice_nodes; value is the reference held by the returned view's _cache
slice_nodes(d, cs, ref, nodes) ==
    LET cp == CopyCache(cs, ref)
        dg == cp.ref
        cs1 == [cp.caches EXCEPT ![dg] = EmptyCache]
    IN IF IsNone(cs1[ref].node_slice)
       THEN LET r == num_nodes(d, cs1, ref) IN
            IF r.raised # "" THEN Result(r.caches, r.raised, None)
            ELSE LET cs2 == [r.caches EXCEPT ![ref].node_slice = Some(Range(Val(r.value)))]
                     cs3 == [cs2 EXCEPT ![dg].node_slice =
                                Some(Val(cs2[ref].node_slice) \cap nodes)]
                 IN Result(cs3, "", Some(dg))
       ELSE Result([cs1 EXCEPT ![dg].node_slice =
                        Some(Val(cs1[ref].node_slice) \cap nodes)],
                   "", Some(dg))

(***************************************************************************)
(* timedelta.py: TimeDeltaDG, a unit and a positive value; the unit 'r' is *)
(* the ordered one and takes the value 1 only.                             *)
(***************************************************************************)
Units == {"r", "s", "m"}

TimeDelta(unit, value) == [unit |-> unit, value |-> value]

\* TimeDeltaDG(unit, value): the time delta, or ValueError
TimeDeltaDG(unit, value) ==
    IF unit \notin Units \/ value <= 0 \/ (unit = "r" /\ value # 1)
    THEN [raised |-> "ValueError", td |-> TimeDelta(unit, value)]
    ELSE [raised |-> "", td |-> TimeDelta(unit, value)]

\* TimeDeltaDG('r'), the default of DGraph
Ordered == TimeDelta("r", 1)

is_ordered(td) == td.unit = "r"

\* the seconds in one unit
UnitSeconds(unit) == IF unit = "m" THEN 60 ELSE 1

\* td.convert(other): the ratio of the two durations, as numerator and
\* denominator; ValueError when one of them is ordered
convert(td, other) ==
    IF is_ordered(td) \/ is_ordered(other)
    THEN [raised |-> "ValueError", num |-> 0, den |-> 1]
    ELSE [raised |-> "", num |-> td.value * UnitSeconds(td.unit),
          den |-> other.value * UnitSeconds(other.unit)]

\* td.is_coarser_than(other): td lasts strictly longer
is_coarser_than(td, other) ==
    td.value * UnitSeconds(td.unit) > other.value * UnitSeconds(other.unit)

(***************************************************************************)
(* loader/base.py: DGBaseLoader                                            *)
(***************************************************************************)
\* the loader object: its attributes, the arguments it was made with and the
\* number of __next__ calls made on it
Loader(kind, args, batch_time_delta, batch_start_time, batch_size, slice_start, n_next) ==
    [kind |-> kind, args |-> args, batch_time_delta |-> batch_time_delta,
     batch_start_time |-> batch_start_time, batch_size |-> batch_size,
     slice_start |-> slice_start, n_next |-> n_next]

LoaderArgs(batch_size, batch_unit, drop_last) ==
    [batch_size |-> batch_size, batch_unit |-> batch_unit, drop_last |-> drop_last]

NoLoader == Loader("none", LoaderArgs(0, "r", FALSE), Ordered, None, 0, <<>>, 0)

\* the outcome of a loader call: the caches and the loader after it, what it
\* raised, what it returned
LoaderResult(cs, ld, raised, value) ==
    [caches |-> cs, loader |-> ld, raised |-> raised, value |-> value]

\* the storage with nothing left in it
StorageEmptied(st) == [st EXCEPT !.d = <<>>]

\* self._dg._storage as a loader call leaves it: __init__ and __next__ reach the
\* storage through the accessors of DGraph and slice_time alone, which read
\* _events_dict and the feature shapes and assign neither
loader_storage(st) == st

\* int(batch_size * conversion_ratio)
ScaledBatchSize(batch_size, ratio) == (batch_size * ratio.num) \div ratio.den

\* __init__ going on with the time deltas it built though building them raised
BaseInitUnchecked(d, cs, ref, td, args) ==
    LET fail == LoaderResult(cs, NoLoader, "ValueError", None)
        btd == TimeDeltaDG(args.batch_unit, args.batch_size)
    IN
    IF args.batch_size <= 0 THEN fail
    ELSE IF is_ordered(td) /\ ~is_ordered(btd.td) THEN fail
    ELSE LET both == ~is_ordered(td) /\ ~is_ordered(btd.td)
             ratio == convert(btd.td, td)
             btd2 == IF both
                     THEN TimeDeltaDG(args.batch_unit,
                                      ScaledBatchSize(args.batch_size, ratio))
                     ELSE btd
             r == start_time(d, cs, ref)
         IN LoaderResult(r.caches,
                         Loader("base", args, btd2.td, r.value, 0, <<>>, 0),
                         "", None)

\* DGBaseLoader.__init__ on the view with cache ref
base_init(d, cs, ref, td, args) ==
    LET fail == LoaderResult(cs, NoLoader, "ValueError", None)
        btd == TimeDeltaDG(args.batch_unit, args.batch_size)
    IN
    IF args.batch_size <= 0 THEN fail
    ELSE IF btd.raised # "" THEN fail
    ELSE IF is_ordered(td) /\ ~is_ordered(btd.td) THEN fail
    ELSE LET both == ~is_ordered(td) /\ ~is_ordered(btd.td)
             ratio == convert(btd.td, td)
             btd2 == IF both
                     THEN TimeDeltaDG(args.batch_unit,
                                      ScaledBatchSize(args.batch_size, ratio))
                     ELSE btd
             r == start_time(d, cs, ref)
         IN IF btd2.raised # "" THEN fail
            ELSE LoaderResult(r.caches,
                              Loader("base", args, btd2.td, r.value, 0, <<>>, 0),
                              "", None)

\* _done_iteration: value is TRUE or FALSE
done_iteration(d, cs, ref, ld) ==
    LET n == num_timestamps(d, cs, ref) IN
    IF Val(n.value) = 0 THEN Result(n.caches, "", TRUE)
    ELSE IF IsNone(ld.batch_start_time) THEN Result(n.caches, "AssertionError", FALSE)
    ELSE LET e == end_time(d, n.caches, ref) IN
         IF IsNone(e.value) THEN Result(e.caches, "AssertionError", FALSE)
         ELSE Result(e.caches, "", Val(ld.batch_start_time) > Val(e.value))

\* DGBaseLoader.__next__; value is the reference held by the batch's _cache
base_next(d, cs, ref, td, ld) ==
    LET dn == done_iteration(d, cs, ref, ld)
        called == [ld EXCEPT !.n_next = @ + 1]
    IN
    IF dn.raised # "" THEN LoaderResult(dn.caches, called, dn.raised, None)
    ELSE IF dn.value THEN LoaderResult(dn.caches, called, "StopIteration", None)
    ELSE IF ~is_ordered(td) /\ is_ordered(ld.batch_time_delta)
         \* batch = DGraph([], ...); batch.num_nodes is max() of an empty set
         THEN LoaderResult(dn.caches, called, "ValueError", None)
    ELSE LET batch_end_time == Val(ld.batch_start_time) + ld.batch_time_delta.value
             batch == slice_time(d, dn.caches, ref, Val(ld.batch_start_time),
                                 batch_end_time)
         IN LoaderResult(batch.caches,
                         [called EXCEPT !.batch_start_time = Some(batch_end_time)],
                         batch.raised, batch.value)

(***************************************************************************)
(* loader.py: DGDataLoader                                                 *)
(***************************************************************************)
\* list(range(start, stop, step)) for a positive step
PyRange(start, stop, step) ==
    LET n == IF stop <= start THEN 0 ELSE (stop - start - 1) \div step + 1
    IN [i \in 1..n |-> start + (i - 1) * step]

\* dg.num_events: the number of events of the view, none of them merged. The
\* graph this loader is written for has end_time as the time of its last event
\* (the loader adds 1 to make it a range's stop), so the count goes up to
\* end_time included.
num_events(d, cs, ref) ==
    LET e == cs[ref].end_time
    IN Len(to_events(d, cs[ref].start_time,
                     IF IsNone(e) THEN None ELSE Some(Val(e) + 1),
                     cs[ref].node_slice))

\* DGDataLoader.__init__ on the view with cache ref; drop_last comes in kwargs
data_init(d, cs, ref, td, args) ==
    LET n == num_timestamps(d, cs, ref)
        dg_ordered == is_ordered(td)
        batch_ordered == args.batch_unit = "r"
        btd == TimeDeltaDG(args.batch_unit, args.batch_size)
        ratio == convert(btd.td, td)
        batch_size == IF ~dg_ordered /\ ~batch_ordered
                      THEN ratio.num \div ratio.den
                      ELSE args.batch_size
        s == start_time(d, n.caches, ref)
        e == end_time(d, s.caches, ref)
        start_idx == IF batch_ordered THEN 0 ELSE Val(s.value)
        stop_idx == IF batch_ordered THEN num_events(d, e.caches, ref)
                    ELSE Val(e.value) + 1
        slice_start == IF args.drop_last
                       THEN PyRange(start_idx, stop_idx - batch_size, batch_size)
                       ELSE PyRange(start_idx, stop_idx, batch_size)
    IN
    IF args.batch_size <= 0 THEN LoaderResult(cs, NoLoader, "ValueError", None)
    ELSE IF Val(n.value) = 0 THEN LoaderResult(n.caches, NoLoader, "ValueError", None)
    ELSE IF dg_ordered /\ ~batch_ordered
         THEN LoaderResult(n.caches, NoLoader, "ValueError", None)
    ELSE IF ~dg_ordered /\ batch_ordered
         THEN LoaderResult(n.caches, NoLoader, "ValueError", None)
    ELSE IF ~dg_ordered /\ ~batch_ordered /\ (btd.raised # "" \/ is_coarser_than(td, btd.td))
         THEN LoaderResult(n.caches, NoLoader, "ValueError", None)
    ELSE IF IsNone(s.value) THEN LoaderResult(s.caches, NoLoader, "AssertionError", None)
    ELSE IF IsNone(e.value) THEN LoaderResult(e.caches, NoLoader, "AssertionError", None)
    ELSE LoaderResult(e.caches,
                      Loader("data", args, Ordered, None, batch_size, slice_start, 0),
                      "", None)

(***************************************************************************)
(* The inputs the model draws from.                                        *)
(***************************************************************************)
Events ==
    {NodeEvent(t, n, None) : t \in Times, n \in NodeIds}
    \cup {EdgeEvent(t, s, d, None) : t \in Times, s \in NodeIds, d \in NodeIds}

\* the non-empty event lists of at most MaxLen events
EventLists == UNION {[1..n -> Events] : n \in 1..MaxLen}

\* non-decreasing time order
TimeOrdered(events) ==
    \A i \in 1..(Len(events) - 1) : events[i].time <= events[i + 1].time

\* the bounds handed to slice_time: from the first timestamp to one past the last
SliceTimes == 1..(MaxTime + 1)

OptTimes == {None} \cup {Some(t) : t \in Times}
OptNodeSets == {None} \cup {Some(S) : S \in SUBSET NodeIds}

\* What a call returned, tagged with its type: an Optional[int], an int, a set of
\* node ids, a list of events, a view (by the reference its _cache holds), or
\* nothing (a raise, a del).
OptVal(x) == [opt |-> x]
IntVal(x) == [int |-> x]
NodesVal(x) == [nodes |-> x]
EventsVal(x) == [events |-> x]
ViewVal(x) == [view |-> x]
TensorVal(x) == [tensor |-> x]
BoolVal(x) == [bool |-> x]
Nothing == [nothing |-> TRUE]

\* the argument record of a call without arguments
NoArgs == [none |-> TRUE]

Call(op, args, pre, raised, value) ==
    [op |-> op, args |-> args, pre |-> pre, raised |-> raised, value |-> value]

(***************************************************************************)
(* SpecStorage and SpecEvents: a storage built from any event list, and a  *)
(* query made of it. A query leaves the storage as it is, so a behaviour   *)
(* makes one query and stops.                                              *)
(***************************************************************************)
InitStorage ==
    /\ input \in EventLists
    /\ events_dict = StorageInit(<<>>, input, 1)
    /\ node_feats_shape = check_node_feature_shapes(input, None).shape
    /\ edge_feats_shape = check_edge_feature_shapes(input, None).shape
    /\ n_appends = 0
    /\ time_delta = Ordered
    /\ loader = NoLoader
    /\ views = <<>>
    /\ caches = <<>>
    /\ last = Call("init", NoArgs, EmptyCache, "", Nothing)

Query(op, args, value) ==
    /\ last' = Call(op, args, EmptyCache, "", value)
    /\ UNCHANGED <<input, backend, n_appends, time_delta, loader, views, caches>>

CallToEvents ==
    /\ last.op = "init"
    /\ \E s \in OptTimes, e \in OptTimes, ns \in OptNodeSets :
           Query("to_events", [start_time |-> s, end_time |-> e, node_slice |-> ns],
                 EventsVal(to_events(events_dict, s, e, ns)))

CallGetStartTime ==
    /\ last.op = "init"
    /\ \E ns \in OptNodeSets :
           Query("get_start_time", [node_slice |-> ns],
                 OptVal(get_start_time(events_dict, ns)))

CallGetEndTime ==
    /\ last.op = "init"
    /\ \E ns \in OptNodeSets :
           Query("get_end_time", [node_slice |-> ns],
                 OptVal(get_end_time(events_dict, ns)))

CallGetNodes ==
    /\ last.op = "init"
    /\ \E s \in OptTimes, e \in OptTimes :
           Query("get_nodes", [start_time |-> s, end_time |-> e],
                 NodesVal(get_nodes(events_dict, s, e)))

CallGetNumEdges ==
    /\ last.op = "init"
    /\ \E s \in OptTimes, e \in OptTimes, ns \in OptNodeSets :
           Query("get_num_edges", [start_time |-> s, end_time |-> e, node_slice |-> ns],
                 IntVal(get_num_edges(events_dict, s, e, ns)))

NextStorage ==
    \/ CallGetStartTime
    \/ CallGetEndTime
    \/ CallGetNodes

SpecStorage == InitStorage /\ [][NextStorage]_vars

\* SpecNumEdges: a storage built from any list of EdgeEvents, a NodeEvent among
\* them or not, and a get_num_edges query made of it. get_num_edges passes over
\* every event that is not an EdgeEvent, so one NodeEvent stands for all.
EdgeCountEvents ==
    {NodeEvent(1, 0, None)}
    \cup {EdgeEvent(t, src, dst, None) : t \in Times, src \in NodeIds, dst \in NodeIds}

InitNumEdges ==
    /\ input \in UNION {[1..n -> EdgeCountEvents] : n \in 1..MaxLen}
    /\ events_dict = StorageInit(<<>>, input, 1)
    /\ node_feats_shape = check_node_feature_shapes(input, None).shape
    /\ edge_feats_shape = check_edge_feature_shapes(input, None).shape
    /\ n_appends = 0
    /\ time_delta = Ordered
    /\ loader = NoLoader
    /\ views = <<>>
    /\ caches = <<>>
    /\ last = Call("init", NoArgs, EmptyCache, "", Nothing)

NextNumEdges == CallGetNumEdges

SpecNumEdges == InitNumEdges /\ [][NextNumEdges]_vars

NextEvents == CallToEvents

SpecEvents == InitStorage /\ [][NextEvents]_vars

(***************************************************************************)
(* SpecAppend: a storage built from any event list, events appended to it  *)
(* one at a time, and a to_events query made of the result.                *)
(***************************************************************************)
\* an append call on the storage
CallAppend(events) ==
    /\ n_appends < MaxAppends
    /\ LET r == append(events_dict, node_feats_shape, edge_feats_shape, events) IN
       /\ events_dict' = r.d
       /\ node_feats_shape' = r.node
       /\ edge_feats_shape' = r.edge
       /\ last' = Call("append", [events |-> events], EmptyCache, r.raised, Nothing)
    /\ n_appends' = n_appends + 1
    /\ UNCHANGED <<input, time_delta, loader, views, caches>>

AppendEvent ==
    /\ last.op \in {"init", "append"}
    /\ \E ev \in Events : CallAppend(<<ev>>)

ToEventsAfterAppend ==
    /\ last.op = "append"
    /\ \E s \in OptTimes, e \in OptTimes, ns \in OptNodeSets :
           Query("to_events", [start_time |-> s, end_time |-> e, node_slice |-> ns],
                 EventsVal(to_events(events_dict, s, e, ns)))

NextAppend ==
    \/ AppendEvent
    \/ ToEventsAfterAppend

SpecAppend == InitStorage /\ [][NextAppend]_vars

(***************************************************************************)
(* SpecShapes: a storage, empty or of one event, and lists of one or two   *)
(* events appended to it, the events with or without features. The events  *)
(* of the k-th append carry the time k + 1.                                *)
(***************************************************************************)
OptShapes == {None} \cup {Some(k) : k \in Shapes}

FeatEventsAt(t) ==
    {NodeEvent(t, 0, f) : f \in OptShapes} \cup {EdgeEvent(t, 0, 0, f) : f \in OptShapes}

InitShapes ==
    /\ input \in {<<>>} \cup {<<ev>> : ev \in FeatEventsAt(1)}
    /\ events_dict = StorageInit(<<>>, input, 1)
    /\ node_feats_shape = check_node_feature_shapes(input, None).shape
    /\ edge_feats_shape = check_edge_feature_shapes(input, None).shape
    /\ n_appends = 0
    /\ time_delta = Ordered
    /\ loader = NoLoader
    /\ views = <<>>
    /\ caches = <<>>
    /\ last = Call("init", NoArgs, EmptyCache, "", Nothing)

AppendOne == \E ev \in FeatEventsAt(n_appends + 2) : CallAppend(<<ev>>)

AppendTwo ==
    \E ev1 \in FeatEventsAt(n_appends + 2), ev2 \in FeatEventsAt(n_appends + 2) :
        CallAppend(<<ev1, ev2>>)

NextShapes ==
    \/ AppendOne
    \/ AppendTwo

SpecShapes == InitShapes /\ [][NextShapes]_vars

(***************************************************************************)
(* Spec: a DGraph built from a time-ordered event list, and the views      *)
(* sliced from it.                                                         *)
(***************************************************************************)
Init ==
    /\ input \in {l \in EventLists : TimeOrdered(l)}
    /\ events_dict = StorageInit(<<>>, input, 1)
    /\ node_feats_shape = check_node_feature_shapes(input, None).shape
    /\ edge_feats_shape = check_edge_feature_shapes(input, None).shape
    /\ n_appends = 0
    /\ time_delta = Ordered
    /\ loader = NoLoader
    /\ views = <<1>>
    /\ caches = <<EmptyCache>>
    /\ last = Call("init", NoArgs, EmptyCache, "", Nothing)

\* a property read on view v
Read(op, v, r) ==
    /\ caches' = r.caches
    /\ last' = Call(op, [v |-> v], caches[views[v]], r.raised,
                    IF r.raised = "" THEN OptVal(r.value) ELSE Nothing)
    /\ UNCHANGED <<input, backend, n_appends, time_delta, loader, views>>

ReadStartTime ==
    \E v \in DOMAIN views : Read("start_time", v, start_time(events_dict, caches, views[v]))

ReadEndTime ==
    \E v \in DOMAIN views : Read("end_time", v, end_time(events_dict, caches, views[v]))

ReadNumNodes ==
    \E v \in DOMAIN views : Read("num_nodes", v, num_nodes(events_dict, caches, views[v]))

ReadNumEdges ==
    \E v \in DOMAIN views : Read("num_edges", v, num_edges(events_dict, caches, views[v]))

ReadNumTimestamps ==
    \E v \in DOMAIN views :
        Read("num_timestamps", v, num_timestamps(events_dict, caches, views[v]))

ToCsv ==
    \E v \in DOMAIN views :
        LET r == to_csv(events_dict, caches, views[v]) IN
        /\ caches' = r.caches
        /\ last' = Call("to_csv", [v |-> v], caches[views[v]], "", EventsVal(r.value))
        /\ UNCHANGED <<input, backend, n_appends, time_delta, loader, views>>

\* a slice call on view v: the view it returns, if any, is views'[Len(views')]
Slice(op, args, v, r) ==
    /\ Len(views) < MaxViews
    /\ caches' = r.caches
    /\ views' = IF r.raised = "" THEN Append(views, Val(r.value)) ELSE views
    /\ last' = Call(op, args, caches[views[v]], r.raised,
                    IF r.raised = "" THEN ViewVal(Val(r.value)) ELSE Nothing)
    /\ UNCHANGED <<input, backend, n_appends, time_delta, loader>>

SliceTime ==
    \E v \in DOMAIN views, s \in SliceTimes, e \in SliceTimes :
        Slice("slice_time", [v |-> v, start_time |-> s, end_time |-> e], v,
              slice_time(events_dict, caches, views[v], s, e))

SliceNodes ==
    \E v \in DOMAIN views, nodes \in SUBSET NodeIds :
        Slice("slice_nodes", [v |-> v, nodes |-> nodes], v,
              slice_nodes(events_dict, caches, views[v], nodes))

\* the caller drops its reference to the view it obtained last
Discard ==
    /\ Len(views) > 1
    /\ views' = SubSeq(views, 1, Len(views) - 1)
    /\ last' = Call("del", [v |-> Len(views)], caches[views[Len(views)]], "", Nothing)
    /\ UNCHANGED <<input, backend, n_appends, time_delta, loader, caches>>

Next ==
    \/ ReadStartTime
    \/ ReadEndTime
    \/ ReadNumNodes
    \/ ReadNumEdges
    \/ ReadNumTimestamps
    \/ ToCsv
    \/ SliceTime
    \/ SliceNodes
    \/ Discard

Spec == Init /\ [][Next]_vars

(***************************************************************************)
(* SpecSliceTime: the views of a DGraph sliced by time, with the reads     *)
(* that fill the _cache slice_time works from.                             *)
(***************************************************************************)
\* the events on node 0: slice_time reads the times of the events only
EventsOnNodeZero ==
    {NodeEvent(t, 0, None) : t \in Times} \cup {EdgeEvent(t, 0, 0, None) : t \in Times}

InitSliceTime ==
    /\ input \in {l \in UNION {[1..n -> EventsOnNodeZero] : n \in 1..MaxLen} :
                      TimeOrdered(l)}
    /\ events_dict = StorageInit(<<>>, input, 1)
    /\ node_feats_shape = check_node_feature_shapes(input, None).shape
    /\ edge_feats_shape = check_edge_feature_shapes(input, None).shape
    /\ n_appends = 0
    /\ time_delta = Ordered
    /\ loader = NoLoader
    /\ views = <<1>>
    /\ caches = <<EmptyCache>>
    /\ last = Call("init", NoArgs, EmptyCache, "", Nothing)

NextSliceTime ==
    \/ ReadStartTime
    \/ ReadEndTime
    \/ ReadNumEdges
    \/ SliceTime
    \/ Discard

SpecSliceTime == InitSliceTime /\ [][NextSliceTime]_vars

(***************************************************************************)
(* SpecFeats: a DGraph of events with and without features, and its        *)
(* feature accessors.                                                      *)
(***************************************************************************)
FeatEvents == UNION {FeatEventsAt(t) : t \in Times}

\* the lists the constructor accepts: the features of a kind of one shape
InitFeats ==
    /\ input \in {l \in UNION {[1..n -> FeatEvents] : n \in 1..MaxLen} :
                      /\ TimeOrdered(l)
                      /\ check_node_feature_shapes(l, None).raised = ""
                      /\ check_edge_feature_shapes(l, None).raised = ""}
    /\ events_dict = StorageInit(<<>>, input, 1)
    /\ node_feats_shape = check_node_feature_shapes(input, None).shape
    /\ edge_feats_shape = check_edge_feature_shapes(input, None).shape
    /\ n_appends = 0
    /\ time_delta = Ordered
    /\ loader = NoLoader
    /\ views = <<1>>
    /\ caches = <<EmptyCache>>
    /\ last = Call("init", NoArgs, EmptyCache, "", Nothing)

\* a feature accessor read on view v
ReadFeats(op, v, r) ==
    /\ caches' = r.caches
    /\ last' = Call(op, [v |-> v], caches[views[v]], r.raised,
                    IF r.raised = "" THEN TensorVal(r.value) ELSE Nothing)
    /\ UNCHANGED <<input, backend, n_appends, time_delta, loader, views>>

ReadNodeFeats ==
    \E v \in DOMAIN views :
        ReadFeats("node_feats", v, node_feats(events_dict, caches, views[v]))

ReadEdgeFeats ==
    \E v \in DOMAIN views :
        ReadFeats("edge_feats", v, edge_feats(events_dict, caches, views[v]))

NextFeats ==
    \/ ReadNodeFeats
    \/ ReadEdgeFeats

SpecFeats == InitFeats /\ [][NextFeats]_vars

(***************************************************************************)
(* SpecLoader: a DGraph with a time delta, a batch loader made over it and *)
(* the batches pulled from a DGBaseLoader.                                 *)
(***************************************************************************)
LoaderTimes == 1..(MaxTime + 1)

LoaderEvents ==
    {NodeEvent(t, 0, None) : t \in LoaderTimes}
    \cup {EdgeEvent(t, 0, 0, None) : t \in LoaderTimes}

TimeDeltas == {TimeDelta(u, 1) : u \in Units} \cup {TimeDelta("s", MaxBatch)}

BatchSizes == 0..MaxBatch

InitLoader ==
    /\ input \in {l \in UNION {[1..n -> LoaderEvents] : n \in 0..MaxLen} : TimeOrdered(l)}
    /\ events_dict = StorageInit(<<>>, input, 1)
    /\ node_feats_shape = check_node_feature_shapes(input, None).shape
    /\ edge_feats_shape = check_edge_feature_shapes(input, None).shape
    /\ n_appends = 0
    /\ time_delta \in TimeDeltas
    /\ loader = NoLoader
    /\ views = <<1>>
    /\ caches = <<EmptyCache>>
    /\ last = Call("init", NoArgs, EmptyCache, "", Nothing)

\* a loader constructor called on the DGraph
Build(op, args, r) ==
    /\ loader.kind = "none"
    /\ caches' = r.caches
    /\ loader' = r.loader
    /\ last' = Call(op, args, caches[views[1]], r.raised, Nothing)
    /\ LET st == loader_storage([d |-> events_dict, node |-> node_feats_shape,
                                 edge |-> edge_feats_shape]) IN
       /\ events_dict' = st.d
       /\ node_feats_shape' = st.node
       /\ edge_feats_shape' = st.edge
    /\ UNCHANGED <<input, n_appends, time_delta, views>>

BuildBaseLoader ==
    \E b \in BatchSizes, u \in Units, dl \in BOOLEAN :
        Build("DGBaseLoader", LoaderArgs(b, u, dl),
              base_init(events_dict, caches, views[1], time_delta, LoaderArgs(b, u, dl)))

BuildDataLoader ==
    \E b \in BatchSizes, u \in Units, dl \in BOOLEAN :
        Build("DGDataLoader", LoaderArgs(b, u, dl),
              data_init(events_dict, caches, views[1], time_delta, LoaderArgs(b, u, dl)))

\* next() on the DGBaseLoader
NextBatch ==
    /\ loader.kind = "base"
    /\ loader.n_next < MaxNext
    /\ LET r == base_next(events_dict, caches, views[1], time_delta, loader) IN
       /\ caches' = r.caches
       /\ loader' = r.loader
       /\ last' = Call("next", NoArgs, caches[views[1]], r.raised,
                       IF r.raised = "" THEN ViewVal(Val(r.value)) ELSE Nothing)
    /\ LET st == loader_storage([d |-> events_dict, node |-> node_feats_shape,
                                 edge |-> edge_feats_shape]) IN
       /\ events_dict' = st.d
       /\ node_feats_shape' = st.node
       /\ edge_feats_shape' = st.edge
    /\ UNCHANGED <<input, n_appends, time_delta, views>>

NextLoader ==
    \/ BuildBaseLoader
    \/ BuildDataLoader
    \/ NextBatch

SpecLoader == InitLoader /\ [][NextLoader]_vars

(***************************************************************************)
(* SpecStale: a DGraph of one event, the accessors of the DGraph read in   *)
(* any order, and events appended to its storage between the reads. The    *)
(* events are on node 0.                                                   *)
(***************************************************************************)
InitStale ==
    /\ input \in {<<ev>> : ev \in EventsOnNodeZero}
    /\ events_dict = StorageInit(<<>>, input, 1)
    /\ node_feats_shape = check_node_feature_shapes(input, None).shape
    /\ edge_feats_shape = check_edge_feature_shapes(input, None).shape
    /\ n_appends = 0
    /\ time_delta = Ordered
    /\ loader = NoLoader
    /\ views = <<1>>
    /\ caches = <<EmptyCache>>
    /\ last = Call("init", NoArgs, EmptyCache, "", Nothing)

\* dg._storage.append(ev)
StorageAppend == \E ev \in EventsOnNodeZero : CallAppend(<<ev>>)

NextStale ==
    \/ ReadStartTime
    \/ ReadEndTime
    \/ ReadNumNodes
    \/ ReadNumEdges
    \/ ReadNumTimestamps
    \/ StorageAppend

SpecStale == InitStale /\ [][NextStale]_vars

(***************************************************************************)
(* SpecCompare: two event objects, and one comparison made between two of  *)
(* them or of one with itself.                                             *)
(***************************************************************************)
InitCompare ==
    /\ input \in [1..2 -> Events]
    /\ events_dict = <<>>
    /\ node_feats_shape = None
    /\ edge_feats_shape = None
    /\ n_appends = 0
    /\ time_delta = Ordered
    /\ loader = NoLoader
    /\ views = <<>>
    /\ caches = <<>>
    /\ last = Call("init", NoArgs, EmptyCache, "", Nothing)

\* a op b, where a is input[i] and b is input[j]
Compare(op, i, j, value) ==
    /\ last.op = "init"
    /\ Query(op, [a |-> i, b |-> j], BoolVal(value))

CompareLt == \E i \in 1..2, j \in 1..2 : Compare("__lt__", i, j, lt(input[i], input[j]))
CompareGt == \E i \in 1..2, j \in 1..2 : Compare("__gt__", i, j, gt(input, i, j))
CompareLe == \E i \in 1..2, j \in 1..2 : Compare("__le__", i, j, le(input, i, j))
CompareGe == \E i \in 1..2, j \in 1..2 : Compare("__ge__", i, j, ge(input, i, j))

NextCompare ==
    \/ CompareLt
    \/ CompareGt
    \/ CompareLe
    \/ CompareGe

SpecCompare == InitCompare /\ [][NextCompare]_vars

(***************************************************************************)
(* SpecScenario: the DGraph of the two edge events (t=1, (2,3)) and        *)
(* (t=5, (10,20)), and its accessors read in any order.                    *)
(***************************************************************************)
InitScenario ==
    /\ input = <<EdgeEvent(1, 2, 3, None), EdgeEvent(5, 10, 20, None)>>
    /\ events_dict = StorageInit(<<>>, input, 1)
    /\ node_feats_shape = check_node_feature_shapes(input, None).shape
    /\ edge_feats_shape = check_edge_feature_shapes(input, None).shape
    /\ n_appends = 0
    /\ time_delta = Ordered
    /\ loader = NoLoader
    /\ views = <<1>>
    /\ caches = <<EmptyCache>>
    /\ last = Call("init", NoArgs, EmptyCache, "", Nothing)

NextScenario ==
    \/ ReadStartTime
    \/ ReadEndTime
    \/ ReadNumNodes
    \/ ReadNumEdges
    \/ ReadNumTimestamps

SpecScenario == InitScenario /\ [][NextScenario]_vars

(***************************************************************************)
(* What the claims speak of, stated from the event list and not from the   *)
(* code's loops.                                                           *)
(***************************************************************************)
\* start <= time < end, an absent bound leaving that side open
Within(t, start, end) ==
    /\ (start # None => start[1] <= t)
    /\ (end # None => t < end[1])

\* the node ids an event is about
IdsOf(ev) == IF ev.kind = "node" THEN {ev.node_id} ELSE {ev.edge[1], ev.edge[2]}

\* the event touches the node slice; every event does when there is none
Touching(ev, node_slice) == node_slice # None => IdsOf(ev) \cap node_slice[1] # {}

\* the positions in the list of the events a query is about
Matching(events, start, end, node_slice) ==
    {i \in 1..Len(events) :
        Within(events[i].time, start, end) /\ Touching(events[i], node_slice)}

MinOf(S) == CHOOSE x \in S : \A y \in S : x <= y
MaxOf(S) == CHOOSE x \in S : \A y \in S : y <= x

(***************************************************************************)
(* Claims about the storage.                                               *)
(***************************************************************************)
\* C7: get_num_edges(start, end, node_slice) is the number of distinct
\* (time, (src, dst)) pairs among the stored EdgeEvents with start <= time < end
\* that have an endpoint in node_slice (all of them when node_slice is None), so
\* two identical EdgeEvents at one timestamp count once.
C7_NumEdgesDistinct ==
    last.op = "get_num_edges" =>
        last.value.int =
            Cardinality({<<input[i].time, input[i].edge>> :
                            i \in {j \in Matching(input, last.args.start_time,
                                                  last.args.end_time,
                                                  last.args.node_slice) :
                                      input[j].kind = "edge"}})

\* two identical EdgeEvents at the same timestamp, both inside the query, counted once
C7_Witness ==
    /\ last.op = "get_num_edges"
    /\ Len(input) = 2
    /\ input[1] = input[2]
    /\ input[1].kind = "edge"
    /\ last.args.node_slice # None
    /\ last.args.end_time # None
    /\ Matching(input, last.args.start_time, last.args.end_time,
                last.args.node_slice) = {1, 2}
    /\ last.value.int = 1

\* C8: get_nodes(start, end) is exactly the set of node ids that are the subject
\* of a NodeEvent or an endpoint of an EdgeEvent with start <= time < end.
C8_GetNodesAll ==
    last.op = "get_nodes" =>
        last.value.nodes =
            UNION {IdsOf(input[i]) :
                      i \in Matching(input, last.args.start_time, last.args.end_time, None)}

\* C9: get_start_time(node_slice) is the least and get_end_time(node_slice) the
\* greatest time of an event touching the slice, and each is None exactly when
\* no event touches it.
C9_StartEndTime ==
    /\ last.op = "get_start_time" =>
           LET times == {input[i].time :
                            i \in Matching(input, None, None, last.args.node_slice)}
           IN last.value.opt = (IF times = {} THEN None ELSE <<MinOf(times)>>)
    /\ last.op = "get_end_time" =>
           LET times == {input[i].time :
                            i \in Matching(input, None, None, last.args.node_slice)}
           IN last.value.opt = (IF times = {} THEN None ELSE <<MaxOf(times)>>)

\* a node slice that only the earlier of two events touches, the later one stored
\* first: the answer is neither the last bucket's time nor the greatest stored time
C9_Witness ==
    /\ last.op = "get_end_time"
    /\ Len(input) = 2
    /\ input[1].time > input[2].time
    /\ last.args.node_slice # None
    /\ Matching(input, None, None, last.args.node_slice) = {2}
    /\ last.value.opt = <<input[2].time>>

\* C10: for an input in non-decreasing time order, to_events(start, end,
\* node_slice) is the subsequence of the input, in input order, of the events with
\* start <= time < end that touch node_slice; with no filter it is the input.
C10_ToEventsSubsequence ==
    (last.op = "to_events" /\ TimeOrdered(input)) =>
        /\ last.value.events =
               SelectSeq(input,
                         LAMBDA ev : /\ Within(ev.time, last.args.start_time,
                                               last.args.end_time)
                                     /\ Touching(ev, last.args.node_slice))
        /\ (/\ last.args.start_time = None
            /\ last.args.end_time = None
            /\ last.args.node_slice = None) => last.value.events = input

\* two different events at one timestamp, both in the window and touching the
\* slice, come back in the order they went in
C10_Witness ==
    /\ last.op = "to_events"
    /\ TimeOrdered(input)
    /\ Len(input) = 2
    /\ input[1].time = input[2].time
    /\ input[1] # input[2]
    /\ last.args.node_slice # None
    /\ last.args.end_time # None
    /\ last.value.events = input

(***************************************************************************)
(* Claims about views.                                                     *)
(***************************************************************************)
\* the set of events a view with cache c exposes, as to_csv would write them
Exposed(c) ==
    LET evs == to_events(events_dict, c.start_time, c.end_time, c.node_slice)
    IN {evs[i] : i \in DOMAIN evs}

CacheKeys == {"start_time", "end_time", "node_slice", "num_nodes", "num_edges",
              "num_timestamps"}

\* every entry the cache held is still there with the value it had
Kept(before, after) == \A k \in CacheKeys : before[k] # None => after[k] = before[k]

SliceOps == {"slice_time", "slice_nodes"}

\* the last call was a slice that returned a view
Sliced(op) == last.op = op /\ last.raised = ""

\* C1: slice_time and slice_nodes never change the view they are called on: its
\* time bounds, its node filter and its cached statistics are after the call what
\* they were before it.
C1_SliceLeavesReceiver ==
    last.op \in SliceOps => Kept(last.pre, caches[views[last.args.v]])

\* C2: the events exposed by the view a slice returns are among the events the
\* sliced view exposed.
C2_SliceNarrows ==
    (last.op \in SliceOps /\ last.raised = "") =>
        Exposed(caches[last.value.view]) \subseteq Exposed(last.pre)

\* C3: for s <= e the view slice_time(s, e) returns exposes every event of the
\* sliced view with time = s (when s < e, the range being empty otherwise) and no
\* event with time = e.
C3_HalfOpen ==
    Sliced("slice_time") =>
        LET s == last.args.start_time
            e == last.args.end_time
            child == Exposed(caches[last.value.view])
        IN /\ \A ev \in Exposed(last.pre) : (ev.time = s /\ s < e) => ev \in child
           /\ \A ev \in child : ev.time # e

\* C4: for c <= a <= b <= d, slicing a view to [c, d) and the result to [a, b)
\* exposes the events that slicing the view to [a, b) directly exposes.
C4_SliceComposes ==
    \A v \in DOMAIN views :
        \A a \in SliceTimes, b \in SliceTimes, c \in SliceTimes, d \in SliceTimes :
            (c <= a /\ a <= b /\ b <= d) =>
                LET outer == slice_time(events_dict, caches, views[v], c, d)
                    inner == slice_time(events_dict, outer.caches, outer.value[1], a, b)
                    direct == slice_time(events_dict, caches, views[v], a, b)
                IN Exposed(inner.caches[inner.value[1]])
                       = Exposed(direct.caches[direct.value[1]])

\* C5: the DGraph of the events (t=1, edge=(2,3)) and (t=5, edge=(10,20)) reports
\* start_time 1, end_time 5, num_nodes 21, num_edges 2 and num_timestamps 2, in
\* whatever order the accessors are read.
C5_ScenarioStatistics ==
    /\ last.op # "init" => last.raised = ""
    /\ last.op = "start_time" => last.value.opt = <<1>>
    /\ last.op = "end_time" => last.value.opt = <<5>>
    /\ last.op = "num_nodes" => last.value.opt = <<21>>
    /\ last.op = "num_edges" => last.value.opt = <<2>>
    /\ last.op = "num_timestamps" => last.value.opt = <<2>>

\* C6: on a view that exposes events, num_nodes is 1 + the largest node id among
\* them, the endpoints of EdgeEvents counting.
C6_NumNodesIsMaxIdPlusOne ==
    (last.op = "num_nodes" /\ Exposed(last.pre) # {}) =>
        /\ last.raised = ""
        /\ last.value.opt = <<1 + MaxOf(UNION {IdsOf(ev) : ev \in Exposed(last.pre)})>>

(***************************************************************************)
(* Claims about append.                                                    *)
(***************************************************************************)
\* C11: whatever the order of the input list and whatever was appended since,
\* to_events returns the matching events in non-decreasing time order.
C11_ToEventsTimeOrdered ==
    last.op = "to_events" => TimeOrdered(last.value.events)

\* the events of the kind in the list that carry features
Featured(events, kind) ==
    {i \in 1..Len(events) : events[i].kind = kind /\ events[i].features # None}

\* the features of one kind in the list all have one shape
Consistent(events, kind) ==
    \A i \in Featured(events, kind), j \in Featured(events, kind) :
        events[i].features = events[j].features

\* the shape of the first features of the kind in the list, None without any
FirstShape(events, kind) ==
    IF Featured(events, kind) = {} THEN None
    ELSE events[MinOf(Featured(events, kind))].features

\* the list has features of the kind whose shape is not the one given
Conflicts(events, kind, shape) ==
    shape # None /\ \E i \in Featured(events, kind) : events[i].features # shape

\* C12: an append on a storage that holds events raises when a new NodeEvent
\* (EdgeEvent) has features whose shape is not the node (edge) feature shape the
\* storage has; an append of consistent shapes on an empty storage is accepted,
\* and its shapes are the storage's from then on.
C12_AppendChecksShapes ==
    [][n_appends' = n_appends + 1 =>
        LET events == last'.args.events IN
        /\ (/\ Len(events_dict) # 0
            /\ \/ Conflicts(events, "node", node_feats_shape)
               \/ Conflicts(events, "edge", edge_feats_shape))
           => (last'.raised = "ValueError" /\ events_dict' = events_dict)
        /\ (/\ Len(events_dict) = 0
            /\ Consistent(events, "node")
            /\ Consistent(events, "edge"))
           => /\ last'.raised = ""
              /\ node_feats_shape' = FirstShape(events, "node")
              /\ edge_feats_shape' = FirstShape(events, "edge")
              /\ Len(events_dict') # 0]_vars

\* an empty storage took its node feature shape from a first append, and a second
\* append of a NodeEvent with features of another shape was refused
C12_Witness ==
    /\ input = <<>>
    /\ n_appends = 2
    /\ last.op = "append"
    /\ last.raised = "ValueError"
    /\ Len(events_dict) = 1
    /\ node_feats_shape # None
    /\ Len(last.args.events) = 1
    /\ last.args.events[1].kind = "node"
    /\ last.args.events[1].features # None
    /\ last.args.events[1].features # node_feats_shape

\* C13: slice_time(start, end) raises ValueError exactly when start > end; it then
\* returns no view and leaves the receiver's _cache and the storage as they were;
\* for start <= end, start = end included, it does not raise.
C13_SliceTimeRaises ==
    last.op = "slice_time" =>
        /\ last.raised = (IF last.args.start_time > last.args.end_time
                          THEN "ValueError" ELSE "")
        /\ last.raised # "" =>
               /\ last.value = Nothing
               /\ caches[views[last.args.v]] = last.pre
               /\ events_dict = StorageInit(<<>>, input, 1)
        /\ last.raised = "" => last.value.view \in DOMAIN caches

\* a view whose _cache holds both its bounds refused a slice with start > end
C13_Witness ==
    /\ last.op = "slice_time"
    /\ last.raised = "ValueError"
    /\ last.args.start_time > last.args.end_time
    /\ last.pre.start_time # None
    /\ last.pre.end_time # None

\* C14: on every view, sliced or not, start_time and end_time are None exactly
\* when the view holds no event, and otherwise the least and the greatest time of
\* an event of the view.
C14_StartEndOfView ==
    LET times == {ev.time : ev \in Exposed(last.pre)} IN
    /\ last.op = "start_time" =>
           last.value.opt = (IF times = {} THEN None ELSE <<MinOf(times)>>)
    /\ last.op = "end_time" =>
           last.value.opt = (IF times = {} THEN None ELSE <<MaxOf(times)>>)

\* C15: reading edge_feats never raises: it is None when no EdgeEvent of the view
\* has features and the tensor of the edge features otherwise, on the first read
\* and on every later one; likewise node_feats for the NodeEvents.
C15_FeatsNeverRaise ==
    /\ last.op = "edge_feats" =>
           /\ last.raised = ""
           /\ (last.value.tensor = None) <=>
                  ~\E ev \in Exposed(last.pre) : ev.kind = "edge" /\ ev.features # None
    /\ last.op = "node_feats" =>
           /\ last.raised = ""
           /\ (last.value.tensor = None) <=>
                  ~\E ev \in Exposed(last.pre) : ev.kind = "node" /\ ev.features # None

(***************************************************************************)
(* Claims about the batch loaders.                                         *)
(***************************************************************************)
\* the input events with t1 <= time < t2
InWindow(t1, t2) ==
    {input[i] : i \in {j \in 1..Len(input) : t1 <= input[j].time /\ input[j].time < t2}}

\* a DGBaseLoader stands over the graph and counts its batch size in the graph's
\* own time unit
SameUnitLoader ==
    /\ loader.kind = "base"
    /\ input # <<>>
    /\ loader.args.batch_unit = time_delta.unit
    /\ time_delta.value = 1

\* C16: a DGBaseLoader with batch size b over a view that spans two windows
\* (start_time + b <= end_time < start_time + 2b) returns a batch from each of the
\* first two next() calls and raises StopIteration on the third.
C16_TwoWindowsTwoBatches ==
    (/\ SameUnitLoader
     /\ last.op = "next"
     /\ input[1].time + loader.args.batch_size <= input[Len(input)].time
     /\ input[Len(input)].time < input[1].time + 2 * loader.args.batch_size)
    => /\ loader.n_next \in {1, 2} => last.raised = ""
       /\ loader.n_next = 3 => last.raised = "StopIteration"

\* C17: a DGDataLoader batching N events by count with batch size b yields
\* floor(N / b) batches with drop_last=True and ceil(N / b) with drop_last=False.
C17_DropLastKeepsCompleteWindows ==
    (last.op = "DGDataLoader" /\ last.raised = "" /\ last.args.batch_unit = "r") =>
        LET N == num_events(events_dict, caches, views[1])
            b == last.args.batch_size
        IN Len(loader.slice_start) =
               (IF last.args.drop_last THEN N \div b ELSE (N + b - 1) \div b)

\* C18: making a DGDataLoader or a DGBaseLoader raises ValueError whenever one of
\* the graph's time delta and the batch unit is ordered and the other is not.
C18_MixedOrderingRefused ==
    (/\ last.op \in {"DGBaseLoader", "DGDataLoader"}
     /\ is_ordered(time_delta) # (last.args.batch_unit = "r"))
    => last.raised = "ValueError"

\* C19: over a graph with time delta (u, 1), a DGBaseLoader with batch_size k and
\* batch_unit u yields as its i-th batch the slice [start_time + ik,
\* start_time + (i+1)k) of the graph, i counted from 0 (i is n_next - 1 below).
C19_WindowsOfBatchSize ==
    (/\ SameUnitLoader
     /\ ~is_ordered(time_delta)
     /\ last.op = "next"
     /\ last.raised = "")
    => LET k == loader.args.batch_size
           lo == input[1].time + (loader.n_next - 1) * k
       IN /\ loader.batch_start_time = Some(lo + k)
          /\ Exposed(caches[last.value.view]) = InWindow(lo, lo + k)

\* C20: on an ordered graph a DGBaseLoader with batch_unit 'r' and any batch size
\* k >= 1 is made without an error, and every batch it yields but the last holds
\* exactly k events.
C20_OrderedBatchesOfK ==
    /\ (/\ last.op = "DGBaseLoader"
        /\ is_ordered(time_delta)
        /\ last.args.batch_unit = "r"
        /\ last.args.batch_size >= 1)
       => last.raised = ""
    /\ (/\ loader.kind = "base"
        /\ is_ordered(time_delta)
        /\ loader.args.batch_unit = "r"
        /\ last.op = "next"
        /\ last.raised = ""
        /\ loader.n_next * loader.args.batch_size < Len(input))
       => Len(to_events(events_dict, caches[last.value.view].start_time,
                        caches[last.value.view].end_time,
                        caches[last.value.view].node_slice))
              = loader.args.batch_size

C22_NextTerminates ==
    /\ [](loader.kind = "base" /\ last.op = "next"
              => last.raised \in {"", "StopIteration"})
    /\ [][(loader.kind = "base" /\ last'.op = "next")
              => /\ last'.raised = ""
                    => /\ ~IsNone(loader.batch_start_time)
                       /\ Val(loader'.batch_start_time) > Val(loader.batch_start_time)
                 /\ (last.op = "next" /\ last.raised = "StopIteration")
                    => last'.raised = "StopIteration"]_vars

\* C23: events compare by time alone: for events a and b of any kind, a < b iff
\* a.time < b.time, a > b iff a.time > b.time, a <= b iff a.time <= b.time,
\* a >= b iff a.time >= b.time; a > b and b > a are never both true.
C23_CompareByTime ==
    /\ last.op \in {"__lt__", "__gt__", "__le__", "__ge__"} =>
          LET ta == input[last.args.a].time
              tb == input[last.args.b].time
          IN last.value.bool = CASE last.op = "__lt__" -> ta < tb
                                 [] last.op = "__gt__" -> ta > tb
                                 [] last.op = "__le__" -> ta <= tb
                                 [] last.op = "__ge__" -> ta >= tb
    /\ (last.op = "__gt__" /\ last.value.bool)
          => ~gt(input, last.args.b, last.args.a)

\* a time delta with a value of at least 1, and of exactly 1 when it is ordered
ValidTimeDelta(td) ==
    /\ td.value >= 1
    /\ is_ordered(td) => td.value = 1

Stored ==
    UNION {{events_dict[i].evs[j] : j \in DOMAIN events_dict[i].evs} :
               i \in DOMAIN events_dict}

\* C25: once an append on the storage has succeeded, every accessor of a view
\* over the storage answers from the events the storage holds now (the view
\* here is the whole graph), even if the accessor had been read before the append.
C25_AccessorsSeeAppend ==
    (events_dict # StorageInit(<<>>, input, 1)) =>
        LET times == {ev.time : ev \in Stored} IN
        /\ last.op = "start_time" => last.value = OptVal(<<MinOf(times)>>)
        /\ last.op = "end_time" => last.value = OptVal(<<MaxOf(times)>>)
        /\ last.op = "num_nodes" =>
               last.value = OptVal(<<1 + MaxOf(UNION {IdsOf(ev) : ev \in Stored})>>)
        /\ last.op = "num_edges" =>
               last.value = OptVal(<<Cardinality({<<ev.time, ev.edge>> :
                                                  ev \in {e \in Stored : IsEdgeEvent(e)}})>>)
        /\ last.op = "num_timestamps" => last.value = OptVal(<<Cardinality(times)>>)

\* C26: on a view that is neither sliced nor appended to, reading accessors
\* changes nothing of what the view exposes: the events to_csv would write stay
\* those the graph was made from, and num_edges and num_timestamps return what
\* they return on a view none of whose accessors was read.
C26_ReadsChangeNothing ==
    /\ Exposed(caches[views[1]]) = {input[i] : i \in DOMAIN input}
    /\ last.op = "num_edges" =>
           last.value = OptVal(num_edges(events_dict, <<EmptyCache>>, 1).value)
    /\ last.op = "num_timestamps" =>
           last.value = OptVal(num_timestamps(events_dict, <<EmptyCache>>, 1).value)

\* C27: a DGBaseLoader pulled until it is exhausted cuts the graph by time: the
\* n-th batch, as it reads when it is returned, holds the events of the n-th
\* window, the windows lying one after the other from the start of the graph,
\* each as wide as the loader's batch time delta; and when the loader reports
\* exhaustion every event of the graph lies in a window it has returned.
C27_BatchesPartition ==
    (loader.kind = "base" /\ last.op = "next" /\ input # <<>>) =>
        LET w == loader.batch_time_delta.value
            cursor == Val(loader.batch_start_time)
        IN /\ last.raised = "" =>
                 /\ cursor = input[1].time + loader.n_next * w
                 /\ Exposed(caches[last.value.view]) = InWindow(cursor - w, cursor)
           /\ last.raised = "StopIteration" =>
                 \A i \in DOMAIN input : input[i].time < cursor

\* C28: a view returned by slice_time or slice_nodes goes on exposing the events
\* it exposed, whatever is read of, or sliced from, its parent or another view:
\* a call on a view other than it leaves its exposed events as they were.
C28_ReturnedViewIsStable ==
    [][\A i \in 2..Len(views) :
          (i <= Len(views') /\ last'.args.v # i)
              => Exposed(caches'[views'[i]]) = Exposed(caches[views[i]])]_vars

\* C29: slice_nodes and slice_time commute and neither filter is lost: for a view
\* v, bounds a <= b and nodes n, v.slice_nodes(n).slice_time(a, b) and
\* v.slice_time(a, b).slice_nodes(n), where neither raises, both expose the events
\* of v with a <= time < b that touch a node of n.
C29_SlicesCommute ==
    \A v \in DOMAIN views :
        \A a \in SliceTimes, b \in SliceTimes, n \in SUBSET NodeIds :
            LET by_nodes == slice_nodes(events_dict, caches, views[v], n)
                by_time == slice_time(events_dict, caches, views[v], a, b)
            IN (a <= b /\ by_nodes.raised = "" /\ by_time.raised = "") =>
                LET nodes_time == slice_time(events_dict, by_nodes.caches,
                                             by_nodes.value[1], a, b)
                    time_nodes == slice_nodes(events_dict, by_time.caches,
                                              by_time.value[1], n)
                    want == {ev \in Exposed(caches[views[v]]) :
                                 a <= ev.time /\ ev.time < b /\ IdsOf(ev) \cap n # {}}
                IN (nodes_time.raised = "" /\ time_nodes.raised = "") =>
                       /\ Exposed(nodes_time.caches[nodes_time.value[1]]) = want
                       /\ Exposed(time_nodes.caches[time_nodes.value[1]]) = want

\* C30: an append that raises on a feature shape leaves the storage as it was:
\* no event of the call is stored and the node and the edge feature shapes stay
\* what they were, so that later appends fare as if the call had not been made.
C30_FailedAppendLeavesStorage ==
    [][(n_appends' = n_appends + 1 /\ last'.raised # "")
          => /\ events_dict' = events_dict
             /\ node_feats_shape' = node_feats_shape
             /\ edge_feats_shape' = edge_feats_shape]_vars

====
